---- MODULE Spec2Model ----
(***************************************************************************)
(* Model of the evaluation core of open-reid-tracking:                     *)
(*   reid/evaluators.py  extract_features, pairwise_distance,              *)
(*                       evaluate_all, Evaluator.evaluate                  *)
(* The ranking metrics cmc and mean_ap live in reid/evaluation_metrics,    *)
(* which is not part of the sources at hand; they are modelled from        *)
(* section 4.3 of the specification.                                       *)
(*                                                                         *)
(* Numbers.  Embedding components are small integers.  Tensor arithmetic   *)
(* is floating point: every elementary operation rounds its exact result   *)
(* to MantBits significant bits (round to nearest, ties to even), the way  *)
(* float32 does with 24 bits.  Rationals (mAP, CMC) are pairs <<n, d>>.    *)
(***************************************************************************)
EXTENDS Integers, Sequences, FiniteSets, TLC

(* ---------------------------- bounds ----------------------------------- *)
MantBits == 3          \* significand width of the modelled float format
MaxBatches == 2        \* batches a data loader yields at most
BatchSize == 2         \* samples per batch at most
MaxQuery == 1          \* length of the query list passed to evaluate
MaxGallery == 2        \* length of the gallery list passed to evaluate
MaxRows == 2           \* rows of a distance matrix passed to evaluate_all
MaxCols == 3           \* columns of a distance matrix passed to evaluate_all
MaxCells == 3          \* entries of a distance matrix passed to evaluate_all
MaxMetaCells == 1      \* the same, when metadata arguments are passed too
MaxYield == 3          \* samples a loader yields at most when recorded
MaxEpochs == 3       \* args.epochs is at most this
MaxStartSave == 2    \* args.start_save is at most this
MaxResumeEpoch == 1  \* the epoch of a resumed checkpoint is at most this
MaxFiles == 3        \* files of a directory given to AI_City.preprocess

FNames == {"a", "b"}                       \* file identifiers
Embeddings == {<<1, 2>>, <<1, 3>>}         \* model outputs (flattened)
\* the samples <<fname, pid, cam>> the lists passed to evaluate are drawn from
Samples == {<<"a", 1, 0>>, <<"a", 2, 1>>, <<"b", 1, 1>>}
\* direct calls of evaluate_all: distances (in hundredths)
Dists == {5, 10}

VARIABLES
    pc,               \* position of the running call
    training,         \* model.training (TRUE after construction), FALSE = eval()
    features,         \* extract_features: OrderedDict fname -> output
    labels,           \* extract_features: OrderedDict fname -> pid
    i,                \* extract_features: number of batches consumed
    yielded,          \* what the data loader has yielded so far (flattened)
    query,            \* evaluate: the query sample list
    gallery,          \* evaluate: the gallery sample list
    query_features,   \* evaluate: result of the first extract_features
    gallery_features, \* evaluate: result of the second extract_features
    distmat,          \* evaluate: result of pairwise_distance
    call,             \* arguments of a direct evaluate_all call
    printed,          \* summary lines printed so far
    result,           \* value returned by the finished call
    raised,           \* exception the call ended in, "" if none
    args,             \* main: the parsed command line of the driver run
    dpc,              \* main: position of the driver
    start_epoch,      \* main: start_epoch
    epoch,            \* main: the loop variable of the training loop
    best_top1,        \* main: best_top1
    model_best,       \* logs_dir: content of model_best.pth.tar, None if absent
    saved,            \* the save_checkpoint calls made: <<state, is_best>>
    finished,         \* the "Finished epoch" lines: <<epoch, top1, best_top1>>
    eval_calls,       \* the calls of Evaluator.evaluate the driver made
    prep,             \* AI_City.preprocess: arguments of the call
    ppc,              \* AI_City.preprocess: position
    fpaths,           \* AI_City.preprocess: the sorted directory listing
    nxt,              \* AI_City.preprocess: index of the next file of the loop
    all_pids,         \* AI_City.preprocess: dict raw identity -> label
    ret,              \* AI_City.preprocess: the sample list built so far
    prep_result       \* AI_City.preprocess: returned <<ret, count>>

\* the evaluator, the drivers and the data set each keep their own state
evars == <<pc, training, features, labels, i, yielded, query, gallery,
           query_features, gallery_features, distmat, call, printed,
           result, raised>>
dvars == <<args, dpc, start_epoch, epoch, best_top1, model_best, saved,
           finished, eval_calls>>
pvars == <<prep, ppc, fpaths, nxt, all_pids, ret, prep_result>>

vars == <<evars, dvars, pvars>>

(* ------------------------- generic helpers ----------------------------- *)
\* Python's None and a present value
None == <<>>
Some(v) == <<v>>

\* all sequences over S of length lo..hi
SeqsOf(S, lo, hi) == UNION {[1..n -> S] : n \in lo..hi}

Abs(v) == IF v < 0 THEN -v ELSE v

RECURSIVE Pow2(_)
Pow2(n) == IF n = 0 THEN 1 ELSE 2 * Pow2(n - 1)

(* ----------------------- floating point model -------------------------- *)
\* unit in the last place of a value of magnitude a: the smallest power of
\* two u with a < 2^MantBits * u
RECURSIVE UlpFrom(_, _)
UlpFrom(a, u) == IF a < Pow2(MantBits) * u THEN u ELSE UlpFrom(a, 2 * u)

\* round to nearest representable value, ties to even significand
Fl(v) ==
    LET a == Abs(v)
        u == UlpFrom(a, 1)
        q == a \div u
        r == a % u
        up == (2 * r > u) \/ (2 * r = u /\ q % 2 = 1)
        m == (IF up THEN q + 1 ELSE q) * u
    IN IF v < 0 THEN -m ELSE m

(* ------------------------- OrderedDict --------------------------------- *)
\* an OrderedDict is the sequence of its <<key, value>> items in key order
EmptyDict == <<>>

DictKeys(d) == [k \in 1..Len(d) |-> d[k][1]]

HasKey(d, key) == \E k \in 1..Len(d) : d[k][1] = key

DictGet(d, key) == d[CHOOSE k \in 1..Len(d) : d[k][1] = key][2]

\* mutant: a key that is present keeps its value (setdefault)
DictSetKeepsFirst(d, key, value) ==
    IF HasKey(d, key) THEN d ELSE Append(d, <<key, value>>)

\* d[key] = value: an existing key keeps its position, a new key goes last
DictSet(d, key, value) ==
    IF HasKey(d, key)
    THEN [k \in 1..Len(d) |-> IF d[k][1] = key THEN <<key, value>> ELSE d[k]]
    ELSE Append(d, <<key, value>>)

(* ------------------------ extract_features ----------------------------- *)
\* what a loader can yield for one sample: <<fname, output, pid>>, output
\* being what extract_cnn_feature returns for the sample's image
\* (bounded input set: the label 2 goes with the output <<1, 2>>, the label 1
\* with the other output, so that both differ between occurrences)
LoaderItems ==
    {<<f, e, IF e = <<1, 2>> THEN 2 ELSE 1>> : f \in FNames, e \in Embeddings}
Batches == SeqsOf(LoaderItems, 1, BatchSize)

\* lines 26-28: for fname, output, pid in zip(...): features[fname] = output
RECURSIVE StoreFeatures(_, _)
StoreFeatures(d, batch) ==
    IF batch = <<>> THEN d
    ELSE StoreFeatures(DictSet(d, Head(batch)[1], Head(batch)[2]), Tail(batch))

RECURSIVE StoreLabels(_, _)
StoreLabels(d, batch) ==
    IF batch = <<>> THEN d
    ELSE StoreLabels(DictSet(d, Head(batch)[1], Head(batch)[3]), Tail(batch))

(* ------------------------ pairwise_distance ---------------------------- *)
\* torch.cat([features[f].unsqueeze(0) for f, _, _ in samples], 0), lines
\* 46 and 47: the list comprehension looks every file identifier up first
\* (KeyError on a missing one), then torch.cat refuses an empty list
CatRaises(feats, samples) ==
    IF \E k \in 1..Len(samples) : ~HasKey(feats, samples[k][1])
    THEN "KeyError"
    ELSE IF samples = <<>> THEN "RuntimeError" ELSE ""

\* mutant: rows taken in the key order of the collection
CatRowsInKeyOrder(feats, samples) ==
    [k \in 1..Len(samples) |->
        IF k <= Len(feats) THEN feats[k][2]
        ELSE DictGet(feats, samples[k][1])]

CatRows(feats, samples) ==
    [k \in 1..Len(samples) |-> DictGet(feats, samples[k][1])]

\* .sum(dim=1) and the inner sums of the matrix product: accumulate the
\* first n entries of v, rounding after every addition
RECURSIVE FlSum(_, _)
FlSum(v, n) == IF n = 0 THEN 0 ELSE Fl(FlSum(v, n - 1) + v[n])

\* torch.pow(x, 2).sum(dim=1, keepdim=True): one squared norm per row
SqNorms(x) ==
    [r \in 1..Len(x) |->
        FlSum([k \in 1..Len(x[r]) |-> Fl(x[r][k] * x[r][k])], Len(x[r]))]

\* x @ y.t()
MatMulT(x, y) ==
    [r \in 1..Len(x) |-> [c \in 1..Len(y) |->
        FlSum([k \in 1..Len(x[r]) |-> Fl(x[r][k] * y[c][k])], Len(x[r]))]]

\* mutant: the product overwrites dist instead of being added to it
AddmmOverwrites(d, beta, alpha, x, y) ==
    LET mm == MatMulT(x, y)
    IN [r \in 1..Len(x) |-> [c \in 1..Len(y) |-> Fl(alpha * mm[r][c])]]

\* dist.addmm_(beta, alpha, x, y.t()): dist = beta * dist + alpha * (x @ y.t())
Addmm(d, beta, alpha, x, y) ==
    LET mm == MatMulT(x, y)
    IN [r \in 1..Len(x) |-> [c \in 1..Len(y) |->
            Fl(Fl(beta * d[r][c]) + Fl(alpha * mm[r][c]))]]

\* lines 44-54.  The result is [raised |-> exception or "", dist |-> matrix]
pairwise_distance(qf, gf, q, g) ==
    IF CatRaises(qf, q) # "" THEN [raised |-> CatRaises(qf, q), dist |-> <<>>]
    ELSE IF CatRaises(gf, g) # "" THEN [raised |-> CatRaises(gf, g), dist |-> <<>>]
    ELSE
        LET x == CatRows(qf, q)
            y == CatRows(gf, g)
            xx == SqNorms(x)
            yy == SqNorms(y)
            dist == [r \in 1..Len(x) |-> [c \in 1..Len(y) |-> Fl(xx[r] + yy[c])]]
        IN [raised |-> "", dist |-> Addmm(dist, 1, -2, x, y)]

(* ------------- ranking metrics (reid/evaluation_metrics) --------------- *)
\* Rationals are pairs <<numerator, denominator>> with a positive denominator
RatEq(a, b) == a[1] * b[2] = b[1] * a[2]
RatLeq(a, b) == a[1] * b[2] <= b[1] * a[2]

RECURSIVE Fact(_)
Fact(n) == IF n <= 1 THEN 1 ELSE n * Fact(n - 1)

RECURSIVE SumTo(_, _)
SumTo(f, n) == IF n = 0 THEN 0 ELSE f[n] + SumTo(f, n - 1)

\* rank the gallery columns of one row by ascending distance; equal
\* distances keep the original column order (stable)
RankOf(row, j) ==
    Cardinality({k \in 1..Len(row) :
                    row[k] < row[j] \/ (row[k] = row[j] /\ k < j)}) + 1

ArgSort(row) ==
    [p \in 1..Len(row) |-> CHOOSE j \in 1..Len(row) : RankOf(row, j) = p]

\* the ranked columns that stay for a query: an entry with the query's
\* identity and the query's camera is removed; with separate_camera_set
\* every entry on the query's camera is removed
ValidRanked(row, qid, qcam, gids, gcams, separate_camera_set) ==
    SelectSeq(ArgSort(row),
              LAMBDA j : /\ (gids[j] # qid \/ gcams[j] # qcam)
                         /\ (separate_camera_set => gcams[j] # qcam))

\* positions, in the list of remaining columns, that hold a true match
HitPositions(valid, qid, gids) ==
    {p \in 1..Len(valid) : gids[valid[p]] = qid}

\* average precision of one query times F * F: the mean, over the
\* positions of the true matches, of the precision at that position
APScaled(valid, qid, gids, F) ==
    LET hits == HitPositions(valid, qid, gids)
        prec == [p \in 1..Len(valid) |->
                    IF p \in hits
                    THEN Cardinality({h \in hits : h <= p}) * (F \div p)
                    ELSE 0]
    IN SumTo(prec, Len(valid)) * (F \div Cardinality(hits))

\* mean_ap(distmat, query_ids, gallery_ids, query_cams, gallery_cams):
\* the mean of the average precisions of the queries that have a valid
\* match; a guarded zero when there is none
mean_ap(dm, query_ids, gallery_ids, query_cams, gallery_cams) ==
    LET m == Len(dm)
        F == Fact(Len(gallery_ids))
        valid == [q \in 1..m |->
                     ValidRanked(dm[q], query_ids[q], query_cams[q],
                                 gallery_ids, gallery_cams, FALSE)]
        scored == {q \in 1..m :
                      HitPositions(valid[q], query_ids[q], gallery_ids) # {}}
        aps == [q \in 1..m |->
                   IF q \in scored
                   THEN APScaled(valid[q], query_ids[q], gallery_ids, F)
                   ELSE 0]
    IN IF scored = {} THEN <<0, 1>>
       ELSE <<SumTo(aps, m), Cardinality(scored) * F * F>>

\* ranks the CMC curve is computed for: 1..CmcTopK
CmcTopK == 10

Min(S) == CHOOSE v \in S : \A w \in S : v <= w

\* cmc(distmat, query_ids, gallery_ids, query_cams, gallery_cams, **params)
\* with first_match_break: CMC at rank r is the share, among the queries
\* that have a valid match, of those whose first true match is ranked
\* within the first r remaining columns; a guarded zero when there is none.
\* single_gallery_shot = False: all remaining entries are ranked directly
cmc(dm, query_ids, gallery_ids, query_cams, gallery_cams, params) ==
    LET m == Len(dm)
        hits == [q \in 1..m |->
                    HitPositions(ValidRanked(dm[q], query_ids[q], query_cams[q],
                                             gallery_ids, gallery_cams,
                                             params.separate_camera_set),
                                 query_ids[q], gallery_ids)]
        scored == {q \in 1..m : hits[q] # {}}
        first == [q \in 1..m |-> IF q \in scored THEN Min(hits[q]) ELSE 0]
    IN [r \in 1..CmcTopK |->
           IF scored = {} THEN <<0, 1>>
           ELSE <<Cardinality({q \in scored : first[q] <= r}),
                  Cardinality(scored)>>]

(* --------------------------- evaluate_all ------------------------------ *)
\* lines 82-84: cmc_configs['market1501']
market1501 ==
    [separate_camera_set |-> FALSE,
     single_gallery_shot |-> FALSE,
     first_match_break |-> TRUE]

\* lines 62-65
IdsOf(samples) == [k \in 1..Len(samples) |-> samples[k][2]]
CamsOf(samples) == [k \in 1..Len(samples) |-> samples[k][3]]

\* mutant: the cameras are read from the identity field of the samples
evaluate_all_cams_from_ids(dm, q, g, qi, gi, qc, gc) ==
    LET fromLists == q # None /\ g # None
        asserted == qi # None /\ gi # None /\ qc # None /\ gc # None
        query_ids == IF fromLists THEN IdsOf(q[1]) ELSE qi[1]
        gallery_ids == IF fromLists THEN IdsOf(g[1]) ELSE gi[1]
        query_cams == IF fromLists THEN IdsOf(q[1]) ELSE qc[1]
        gallery_cams == IF fromLists THEN IdsOf(g[1]) ELSE gc[1]
        mAP == mean_ap(dm, query_ids, gallery_ids, query_cams, gallery_cams)
        scores == cmc(dm, query_ids, gallery_ids, query_cams, gallery_cams,
                      market1501)
    IN IF ~fromLists /\ ~asserted
       THEN [raised |-> "AssertionError", printed |-> <<>>, result |-> None]
       ELSE [raised |-> "",
             printed |-> << <<mAP, scores[1], scores[5], scores[10]>> >>,
             result |-> Some(scores[1])]

\* mutant: the cameras of the lists are not passed on (query camera 0, gallery camera 1)
evaluate_all_default_cams(dm, q, g, qi, gi, qc, gc) ==
    LET fromLists == q # None /\ g # None
        asserted == qi # None /\ gi # None /\ qc # None /\ gc # None
        query_ids == IF fromLists THEN IdsOf(q[1]) ELSE qi[1]
        gallery_ids == IF fromLists THEN IdsOf(g[1]) ELSE gi[1]
        query_cams == IF fromLists THEN [k \in 1..Len(q[1]) |-> 0] ELSE qc[1]
        gallery_cams == IF fromLists THEN [k \in 1..Len(g[1]) |-> 1] ELSE gc[1]
        mAP == mean_ap(dm, query_ids, gallery_ids, query_cams, gallery_cams)
        scores == cmc(dm, query_ids, gallery_ids, query_cams, gallery_cams,
                      market1501)
    IN IF ~fromLists /\ ~asserted
       THEN [raised |-> "AssertionError", printed |-> <<>>, result |-> None]
       ELSE [raised |-> "",
             printed |-> << <<mAP, scores[1], scores[5], scores[10]>> >>,
             result |-> Some(scores[1])]

\* mutant: the summary line takes the ranks in reverse order
evaluate_all_reversed_ranks(dm, q, g, qi, gi, qc, gc) ==
    LET fromLists == q # None /\ g # None
        asserted == qi # None /\ gi # None /\ qc # None /\ gc # None
        query_ids == IF fromLists THEN IdsOf(q[1]) ELSE qi[1]
        gallery_ids == IF fromLists THEN IdsOf(g[1]) ELSE gi[1]
        query_cams == IF fromLists THEN CamsOf(q[1]) ELSE qc[1]
        gallery_cams == IF fromLists THEN CamsOf(g[1]) ELSE gc[1]
        mAP == mean_ap(dm, query_ids, gallery_ids, query_cams, gallery_cams)
        scores == cmc(dm, query_ids, gallery_ids, query_cams, gallery_cams,
                      market1501)
    IN IF ~fromLists /\ ~asserted
       THEN [raised |-> "AssertionError", printed |-> <<>>, result |-> None]
       ELSE [raised |-> "",
             printed |-> << <<mAP, scores[10], scores[5], scores[1]>> >>,
             result |-> Some(scores[1])]

\* mutant: metadata arguments, when all passed, win over the lists
evaluate_all_prefers_metadata(dm, q, g, qi, gi, qc, gc) ==
    LET fromLists == q # None /\ g # None /\ ~(qi # None /\ gi # None /\ qc # None /\ gc # None)
        asserted == qi # None /\ gi # None /\ qc # None /\ gc # None
        query_ids == IF fromLists THEN IdsOf(q[1]) ELSE qi[1]
        gallery_ids == IF fromLists THEN IdsOf(g[1]) ELSE gi[1]
        query_cams == IF fromLists THEN CamsOf(q[1]) ELSE qc[1]
        gallery_cams == IF fromLists THEN CamsOf(g[1]) ELSE gc[1]
        mAP == mean_ap(dm, query_ids, gallery_ids, query_cams, gallery_cams)
        scores == cmc(dm, query_ids, gallery_ids, query_cams, gallery_cams,
                      market1501)
    IN IF ~fromLists /\ ~asserted
       THEN [raised |-> "AssertionError", printed |-> <<>>, result |-> None]
       ELSE [raised |-> "",
             printed |-> << <<mAP, scores[1], scores[5], scores[10]>> >>,
             result |-> Some(scores[1])]

\* mutant: returns mAP instead of the rank-1 CMC
evaluate_all_returns_mAP(dm, q, g, qi, gi, qc, gc) ==
    LET fromLists == q # None /\ g # None
        asserted == qi # None /\ gi # None /\ qc # None /\ gc # None
        query_ids == IF fromLists THEN IdsOf(q[1]) ELSE qi[1]
        gallery_ids == IF fromLists THEN IdsOf(g[1]) ELSE gi[1]
        query_cams == IF fromLists THEN CamsOf(q[1]) ELSE qc[1]
        gallery_cams == IF fromLists THEN CamsOf(g[1]) ELSE gc[1]
        mAP == mean_ap(dm, query_ids, gallery_ids, query_cams, gallery_cams)
        scores == cmc(dm, query_ids, gallery_ids, query_cams, gallery_cams,
                      market1501)
    IN IF ~fromLists /\ ~asserted
       THEN [raised |-> "AssertionError", printed |-> <<>>, result |-> None]
       ELSE [raised |-> "",
             printed |-> << <<mAP, scores[1], scores[5], scores[10]>> >>,
             result |-> Some(mAP)]

\* lines 57-93.  q, g and the four metadata arguments are None or Some(list).
\* The result is [raised, printed (the summary lines), result]
evaluate_all(dm, q, g, qi, gi, qc, gc) ==
    LET fromLists == q # None /\ g # None
        asserted == qi # None /\ gi # None /\ qc # None /\ gc # None
        query_ids == IF fromLists THEN IdsOf(q[1]) ELSE qi[1]
        gallery_ids == IF fromLists THEN IdsOf(g[1]) ELSE gi[1]
        query_cams == IF fromLists THEN CamsOf(q[1]) ELSE qc[1]
        gallery_cams == IF fromLists THEN CamsOf(g[1]) ELSE gc[1]
        mAP == mean_ap(dm, query_ids, gallery_ids, query_cams, gallery_cams)
        scores == cmc(dm, query_ids, gallery_ids, query_cams, gallery_cams,
                      market1501)
    IN IF ~fromLists /\ ~asserted
       THEN [raised |-> "AssertionError", printed |-> <<>>, result |-> None]
       ELSE [raised |-> "",
             printed |-> << <<mAP, scores[1], scores[5], scores[10]>> >>,
             result |-> Some(scores[1])]

(* ------------- arguments of direct calls of evaluate_all --------------- *)
\* samples of the lists passed directly: <<fname, pid, cam>>
RankSamples == {<<"f", 5, 0>>, <<"f", 5, 1>>, <<"f", 7, 1>>}

Shapes ==
    {mn \in (0..MaxRows) \X (0..MaxCols) : mn[1] * mn[2] <= MaxCells}

\* metadata arguments: for the gallery the lists' own identities and
\* cameras, for the query the other identity and the other camera at every
\* position, so that ranking by the arguments differs from ranking by the
\* lists
OtherIds(samples) == [k \in 1..Len(samples) |-> 12 - samples[k][2]]
OtherCams(samples) == [k \in 1..Len(samples) |-> 1 - samples[k][3]]

Pass(present, v) == IF present THEN Some(v) ELSE None

\* which arguments a call passes: <<query, gallery, query_ids, gallery_ids,
\* query_cams, gallery_cams>>.  ListsOnly is the call Evaluator.evaluate
\* makes; PassFlags leave out at most one of the four metadata arguments
ListsOnly == <<TRUE, TRUE, FALSE, FALSE, FALSE, FALSE>>

PassFlags ==
    {f \in [1..6 -> BOOLEAN] : Cardinality({k \in 3..6 : ~f[k]}) <= 1}

\* the sample lists alone on every shape; on the small shapes also the
\* lists and the metadata arguments, present or absent
CallFlags(mn) ==
    IF mn[1] * mn[2] <= MaxMetaCells THEN PassFlags \cup {ListsOnly}
    ELSE {ListsOnly}

\* the argument tuple of a call
CallOf(dm, q, g, f) ==
    [distmat |-> dm,
     query |-> Pass(f[1], q), gallery |-> Pass(f[2], g),
     query_ids |-> Pass(f[3], OtherIds(q)),
     gallery_ids |-> Pass(f[4], IdsOf(g)),
     query_cams |-> Pass(f[5], OtherCams(q)),
     gallery_cams |-> Pass(f[6], CamsOf(g))]

\* model.eval() keeps the mode it finds: a variant that never switches
ModelEvalKeepsMode(mode) == mode

\* line 14: model.eval() turns the training flag of the model off, whatever
\* it was
ModelEval(mode) == FALSE

\* the state after construction, with the arguments c of a direct call of
\* evaluate_all bound (None: no such call)
EvaluatorInit(c) ==
    /\ pc = "idle"
    /\ training = TRUE
    /\ features = EmptyDict
    /\ labels = EmptyDict
    /\ i = 0
    /\ yielded = <<>>
    /\ query = <<>>
    /\ gallery = <<>>
    /\ query_features = EmptyDict
    /\ gallery_features = EmptyDict
    /\ distmat = <<>>
    /\ call = c
    /\ printed = <<>>
    /\ result = None
    /\ raised = ""

\* no driver is running
DriverIdle ==
    /\ args = None
    /\ dpc = "idle"
    /\ start_epoch = 0
    /\ epoch = 0
    /\ best_top1 = 0
    /\ model_best = None
    /\ saved = <<>>
    /\ finished = <<>>
    /\ eval_calls = <<>>

\* no call of AI_City.preprocess is running
PreprocessIdle ==
    /\ prep = None
    /\ ppc = "idle"
    /\ fpaths = <<>>
    /\ nxt = 1
    /\ all_pids = EmptyDict
    /\ ret = <<>>
    /\ prep_result = None

InitWith(c) == EvaluatorInit(c) /\ DriverIdle /\ PreprocessIdle

Init == InitWith(None)

\* extract_features(model, data_loader, eval_only), lines 14-21
ExtractCall ==
    /\ pc = "idle"
    /\ pc' = "extract_loop"
    /\ training' = ModelEval(training)
    /\ features' = EmptyDict
    /\ labels' = EmptyDict
    /\ i' = 0
    /\ UNCHANGED <<yielded, query, gallery, query_features, gallery_features,
                   distmat, call, printed, result, raised>>
    /\ UNCHANGED <<dvars, pvars>>

\* one iteration of the loop of lines 22-39
ExtractBatch ==
    /\ pc = "extract_loop"
    /\ i < MaxBatches
    /\ \E batch \in Batches :
        /\ Len(yielded) + Len(batch) <= MaxYield
        /\ features' = StoreFeatures(features, batch)
        /\ labels' = StoreLabels(labels, batch)
        /\ yielded' = yielded \o batch
    /\ i' = i + 1
    /\ UNCHANGED <<pc, training, query, gallery, query_features,
                   gallery_features, distmat, call, printed, result, raised>>
    /\ UNCHANGED <<dvars, pvars>>

\* the loader is exhausted: line 41
ExtractReturn ==
    /\ pc = "extract_loop"
    /\ pc' = "extract_returned"
    /\ result' = Some(<<features, labels>>)
    /\ UNCHANGED <<training, features, labels, i, yielded, query, gallery,
                   query_features, gallery_features, distmat, call, printed,
                   raised>>
    /\ UNCHANGED <<dvars, pvars>>

NextExtract == ExtractCall \/ ExtractBatch \/ ExtractReturn

SpecExtract == Init /\ [][NextExtract]_vars

(* ------------------------ Evaluator.evaluate --------------------------- *)
\* a sample list of a data set split: file identifiers are unique in it
UniqueNames(l) == \A a, b \in 1..Len(l) : l[a][1] = l[b][1] => a = b

QueryLists == {l \in SeqsOf(Samples, 0, MaxQuery) : UniqueNames(l)}
GalleryLists == {l \in SeqsOf(Samples, 0, MaxGallery) : UniqueNames(l)}

\* evaluate(query_loader, gallery_loader, query, gallery): line 102 and the
\* entry of the first extract_features (lines 14-21)
Evaluate ==
    /\ pc = "idle"
    /\ \E q \in QueryLists, g \in GalleryLists :
        /\ query' = q
        /\ gallery' = g
    /\ pc' = "query_loop"
    /\ training' = ModelEval(training)
    /\ features' = EmptyDict
    /\ labels' = EmptyDict
    /\ i' = 0
    /\ UNCHANGED <<yielded, query_features, gallery_features, distmat, call,
                   printed, result, raised>>
    /\ UNCHANGED <<dvars, pvars>>

\* one iteration of the loop of lines 22-39 over query_loader
QueryBatch ==
    /\ pc = "query_loop"
    /\ i < MaxBatches
    /\ \E batch \in Batches :
        /\ features' = StoreFeatures(features, batch)
        /\ labels' = StoreLabels(labels, batch)
    /\ i' = i + 1
    /\ UNCHANGED <<pc, training, yielded, query, gallery, query_features,
                   gallery_features, distmat, call, printed, result, raised>>
    /\ UNCHANGED <<dvars, pvars>>

\* query_loader is exhausted: line 41, then line 103 keeps the features and
\* drops the labels, line 104, and the entry of the second extract_features
QueryReturn ==
    /\ pc = "query_loop"
    /\ query_features' = features
    /\ pc' = "gallery_loop"
    /\ training' = ModelEval(training)
    /\ features' = EmptyDict
    /\ labels' = EmptyDict
    /\ i' = 0
    /\ UNCHANGED <<yielded, query, gallery, gallery_features, distmat, call,
                   printed, result, raised>>
    /\ UNCHANGED <<dvars, pvars>>

\* one iteration of the loop of lines 22-39 over gallery_loader
GalleryBatch ==
    /\ pc = "gallery_loop"
    /\ i < MaxBatches
    /\ \E batch \in Batches :
        /\ features' = StoreFeatures(features, batch)
        /\ labels' = StoreLabels(labels, batch)
    /\ i' = i + 1
    /\ UNCHANGED <<pc, training, yielded, query, gallery, query_features,
                   gallery_features, distmat, call, printed, result, raised>>
    /\ UNCHANGED <<dvars, pvars>>

\* gallery_loader is exhausted: line 41, then line 105
GalleryReturn ==
    /\ pc = "gallery_loop"
    /\ gallery_features' = features
    /\ pc' = "pairwise_distance"
    /\ UNCHANGED <<training, features, labels, i, yielded, query, gallery,
                   query_features, distmat, call, printed, result, raised>>
    /\ UNCHANGED <<dvars, pvars>>

\* line 106: an exception of pairwise_distance leaves evaluate
PairwiseDistance ==
    /\ pc = "pairwise_distance"
    /\ LET r == pairwise_distance(query_features, gallery_features,
                                  query, gallery)
       IN /\ raised' = r.raised
          /\ distmat' = r.dist
          /\ pc' = IF r.raised = "" THEN "evaluate_all" ELSE "raised"
    /\ UNCHANGED <<training, features, labels, i, yielded, query, gallery,
                   query_features, gallery_features, call, printed, result>>
    /\ UNCHANGED <<dvars, pvars>>

\* line 107: return evaluate_all(distmat, query=query, gallery=gallery)
EvaluateAll ==
    /\ pc = "evaluate_all"
    /\ LET r == evaluate_all(distmat, Some(query), Some(gallery),
                             None, None, None, None)
       IN /\ raised' = r.raised
          /\ printed' = printed \o r.printed
          /\ result' = r.result
          /\ pc' = IF r.raised = "" THEN "returned" ELSE "raised"
    /\ UNCHANGED <<training, features, labels, i, yielded, query, gallery,
                   query_features, gallery_features, distmat, call>>
    /\ UNCHANGED <<dvars, pvars>>

NextEval ==
    \/ Evaluate
    \/ QueryBatch
    \/ QueryReturn
    \/ GalleryBatch
    \/ GalleryReturn
    \/ PairwiseDistance
    \/ EvaluateAll

SpecEval == Init /\ [][NextEval]_vars

(* -------------------- direct calls of evaluate_all --------------------- *)
\* a direct call of evaluate_all is about to be made
InitRank ==
    \E mn \in Shapes :
        \E dm \in [1..mn[1] -> [1..mn[2] -> Dists]],
           q \in [1..mn[1] -> RankSamples],
           g \in [1..mn[2] -> RankSamples],
           f \in CallFlags(mn) :
            InitWith(Some(CallOf(dm, q, g, f)))

\* evaluate_all(distmat, query, gallery, query_ids, ...), called directly
EvaluateAllCall ==
    /\ pc = "idle"
    /\ call # None
    /\ LET c == call[1]
           r == evaluate_all(c.distmat, c.query, c.gallery,
                             c.query_ids, c.gallery_ids,
                             c.query_cams, c.gallery_cams)
       IN /\ raised' = r.raised
          /\ printed' = printed \o r.printed
          /\ result' = r.result
          /\ pc' = IF r.raised = "" THEN "returned" ELSE "raised"
    /\ UNCHANGED <<training, features, labels, i, yielded, query, gallery,
                   query_features, gallery_features, distmat, call>>
    /\ UNCHANGED <<dvars, pvars>>

NextRank == EvaluateAllCall

SpecRank == InitRank /\ [][NextRank]_vars

(* ------------- the drivers: PCB.py and examples/IDE.py ----------------- *)
\* values a driver passes: data loaders, sample lists, a metric, a flag
Loader(n) == <<"loader", n>>
SampleList(n) == <<"samples", n>>
Metric == <<"metric", "DistanceMetric">>
True == <<"bool", "True">>

\* def evaluate(self, query_loader, gallery_loader, query, gallery,
\*              metric=None, eval_only=True): the parameters after self
EvaluateParams ==
    <<"query_loader", "gallery_loader", "query", "gallery", "metric",
      "eval_only">>
\* the parameters with a default value
EvaluateDefaults == << <<"metric", None>>, <<"eval_only", True>> >>

\* Python binds the positional arguments pos to the first parameters and the
\* keyword arguments kw (pairs <<name, value>>) by name; a surplus positional
\* argument, an unknown keyword, a parameter given twice and a parameter
\* without default left unbound are a TypeError
BindCall(params, defaults, pos, kw) ==
    LET np == Len(params)
        Index(name) == CHOOSE k \in 1..np : params[k] = name
        Known(name) == \E k \in 1..np : params[k] = name
        ByKeyword(name) == \E j \in 1..Len(kw) : kw[j][1] = name
        HasDefault(name) == \E j \in 1..Len(defaults) : defaults[j][1] = name
        KeywordOf(name) ==
            kw[CHOOSE j \in 1..Len(kw) : kw[j][1] = name][2]
        DefaultOf(name) ==
            defaults[CHOOSE j \in 1..Len(defaults) : defaults[j][1] = name][2]
        bad ==
            \/ Len(pos) > np
            \/ \E j \in 1..Len(kw) : ~Known(kw[j][1])
            \/ \E j \in 1..Len(kw) :
                  Known(kw[j][1]) /\ Index(kw[j][1]) <= Len(pos)
            \/ \E k \in (Len(pos) + 1)..np :
                  ~ByKeyword(params[k]) /\ ~HasDefault(params[k])
    IN IF bad THEN [raised |-> "TypeError", bound |-> <<>>]
       ELSE [raised |-> "",
             bound |-> [k \in 1..np |->
                           <<params[k],
                             IF k <= Len(pos) THEN pos[k]
                             ELSE IF ByKeyword(params[k])
                                  THEN KeywordOf(params[k])
                                  ELSE DefaultOf(params[k])>>]]

\* the values Evaluator.evaluate returns: a rank-1 CMC score
Scores == {0, 1}

\* how a call evaluator.evaluate(*pos, **kw) of a driver ends: a TypeError
\* of the binding, or what evaluate does with the bound arguments: it
\* returns a score or ends in an exception of pairwise_distance
EvaluateCallOutcomes(pos, kw) ==
    LET b == BindCall(EvaluateParams, EvaluateDefaults, pos, kw)
    IN IF b.raised # ""
       THEN {[raised |-> b.raised, bound |-> b.bound, result |-> None]}
       ELSE {[raised |-> "", bound |-> b.bound, result |-> Some(sc)] :
                sc \in Scores}
            \cup {[raised |-> e, bound |-> b.bound, result |-> None] :
                     e \in {"RuntimeError", "KeyError"}}

\* the entry of eval_calls for a call made at a line of a driver
CallRecord(site, ep, o) ==
    [site |-> site, epoch |-> ep, raised |-> o.raised, bound |-> o.bound,
     result |-> o.result]

\* PCB.py lines 68 and 139
PCBEvaluateArgs ==
    [pos |-> <<Loader("query_loader"), Loader("gallery_loader"),
               SampleList("dataset.query"), SampleList("dataset.gallery")>>,
     kw |-> << <<"eval_only", True>> >>]

\* examples/IDE.py lines 186-187 and 258-259
IDETestArgs ==
    [pos |-> <<Loader("test_loader"), SampleList("eval_set_query"),
               SampleList("dataset.gallery")>>,
     kw |-> << <<"metric", Metric>>, <<"eval_only", True>> >>]

\* examples/IDE.py lines 233-234
IDEValArgs ==
    [pos |-> <<Loader("val_loader"), SampleList("dataset.val"),
               SampleList("dataset.val")>>,
     kw |-> << <<"metric", Metric>>, <<"eval_only", True>> >>]

\* best_top1 values found in a checkpoint that is resumed
BestTop1s == {0, 1, 50, 60}

\* the checkpoint args.resume names, None without --resume
Resumes ==
    {None} \cup {Some([epoch |-> e, best_top1 |-> b]) :
                    e \in 0..MaxResumeEpoch, b \in BestTop1s}

\* the parsed command lines; mygt_icams is an option of IDE.py only
DriverArgs ==
    {a \in [driver : {"PCB", "IDE"}, evaluate : BOOLEAN, train : BOOLEAN,
            epochs : 0..MaxEpochs, start_save : 0..MaxStartSave,
            resume : Resumes, mygt_icams : {0, 1}] :
        a.driver = "PCB" => a.mygt_icams = 0}

\* main(args) is entered; logs_dir holds no model_best.pth.tar, or the one
\* of the run that is resumed
InitDriver ==
    /\ EvaluatorInit(None)
    /\ PreprocessIdle
    /\ \E a \in DriverArgs :
        /\ args = Some(a)
        /\ model_best \in {None, a.resume}
    /\ dpc = "main"
    /\ start_epoch = 0
    /\ epoch = 0
    /\ best_top1 = 0
    /\ saved = <<>>
    /\ finished = <<>>
    /\ eval_calls = <<>>

Max(a, b) == IF a >= b THEN a ELSE b

\* save_checkpoint(state, is_best, fpath) writes state to fpath and, when
\* is_best, copies it to model_best.pth.tar: the new content of that file
save_checkpoint(state, is_best, best) ==
    IF is_best THEN Some(state) ELSE best

\* PCB.py line 111: the validation is skipped
PCBTop1 == 50

\* a loop body that takes a top1 equal to best_top1 for no improvement
PCBCheckpointStrict(top1) ==
    LET is_best == top1 > best_top1
        best == Max(top1, best_top1)
        state == [epoch |-> epoch + 1, best_top1 |-> best]
    IN /\ best_top1' = best
       /\ saved' = Append(saved, <<state, is_best>>)
       /\ model_best' = save_checkpoint(state, is_best, model_best)
       /\ finished' = Append(finished, <<epoch, top1, best>>)

\* PCB.py lines 113-129: is_best, best_top1, save_checkpoint and the
\* "Finished epoch" line
PCBCheckpoint(top1) ==
    LET is_best == top1 >= best_top1
        best == Max(top1, best_top1)
        state == [epoch |-> epoch + 1, best_top1 |-> best]
    IN /\ best_top1' = best
       /\ saved' = Append(saved, <<state, is_best>>)
       /\ model_best' = save_checkpoint(state, is_best, model_best)
       /\ finished' = Append(finished, <<epoch, top1, best>>)

\* PCB.py lines 55-69 and the test of line 74
PCBMain ==
    /\ dpc = "main"
    /\ args[1].driver = "PCB"
    /\ LET a == args[1]
           se == IF a.resume # None THEN a.resume[1].epoch ELSE 0
       IN /\ start_epoch' = se
          /\ best_top1' = IF a.resume # None THEN a.resume[1].best_top1 ELSE 0
          /\ IF a.evaluate
             THEN \E o \in EvaluateCallOutcomes(PCBEvaluateArgs.pos,
                                                PCBEvaluateArgs.kw) :
                    /\ eval_calls' =
                           Append(eval_calls, CallRecord("PCB.py:68", se, o))
                    /\ dpc' = IF o.raised = "" THEN "done" ELSE "raised"
                    /\ epoch' = epoch
             ELSE /\ eval_calls' = eval_calls
                  /\ dpc' = IF a.train THEN "loop" ELSE "done"
                  /\ epoch' = se
    /\ UNCHANGED <<args, model_best, saved, finished>>
    /\ UNCHANGED <<evars, pvars>>

\* PCB.py lines 102-131: one iteration of the training loop
PCBEpoch ==
    /\ dpc = "loop"
    /\ args[1].driver = "PCB"
    /\ epoch < args[1].epochs
    /\ IF epoch < args[1].start_save
       THEN UNCHANGED <<best_top1, saved, model_best, finished>>
       ELSE PCBCheckpoint(PCBTop1)
    /\ epoch' = epoch + 1
    /\ UNCHANGED <<args, dpc, start_epoch, eval_calls>>
    /\ UNCHANGED <<evars, pvars>>

\* PCB.py lines 133-139: the loop is exhausted; checkpoint_loader fails
\* without a model_best.pth.tar
PCBFinalTest ==
    /\ dpc = "loop"
    /\ args[1].driver = "PCB"
    /\ epoch >= args[1].epochs
    /\ IF model_best = None
       THEN /\ dpc' = "raised"
            /\ UNCHANGED <<start_epoch, best_top1, eval_calls>>
       ELSE /\ start_epoch' = model_best[1].epoch
            /\ best_top1' = model_best[1].best_top1
            /\ \E o \in EvaluateCallOutcomes(PCBEvaluateArgs.pos,
                                             PCBEvaluateArgs.kw) :
                /\ eval_calls' =
                       Append(eval_calls, CallRecord("PCB.py:139", epoch, o))
                /\ dpc' = IF o.raised = "" THEN "done" ELSE "raised"
    /\ UNCHANGED <<args, epoch, model_best, saved, finished>>
    /\ UNCHANGED <<evars, pvars>>

\* examples/IDE.py line 236: the validation is skipped
IDETop1 == 50

\* examples/IDE.py lines 238-249: is_best, best_top1, save_checkpoint and
\* the "Finished epoch" line
IDECheckpoint(top1_eval) ==
    LET is_best == top1_eval >= best_top1
        best == Max(top1_eval, best_top1)
        state == [epoch |-> epoch + 1, best_top1 |-> best]
    IN /\ best_top1' = best
       /\ saved' = Append(saved, <<state, is_best>>)
       /\ model_best' = save_checkpoint(state, is_best, model_best)
       /\ finished' = Append(finished, <<epoch, top1_eval, best>>)

\* examples/IDE.py lines 166-188 and the test of line 193
IDEMain ==
    /\ dpc = "main"
    /\ args[1].driver = "IDE"
    /\ LET a == args[1]
           se == IF a.resume # None THEN a.resume[1].epoch ELSE 0
       IN /\ start_epoch' = se
          /\ best_top1' = IF a.resume # None THEN a.resume[1].best_top1 ELSE 0
          /\ IF a.evaluate
             THEN \E o \in EvaluateCallOutcomes(IDETestArgs.pos,
                                                IDETestArgs.kw) :
                    /\ eval_calls' =
                           Append(eval_calls,
                                  CallRecord("examples/IDE.py:186", se, o))
                    /\ dpc' = IF o.raised = "" THEN "done" ELSE "raised"
                    /\ epoch' = epoch
             ELSE /\ eval_calls' = eval_calls
                  /\ dpc' = IF a.train THEN "loop" ELSE "done"
                  /\ epoch' = se
    /\ UNCHANGED <<args, model_best, saved, finished>>
    /\ UNCHANGED <<evars, pvars>>

\* examples/IDE.py lines 223-251: one iteration of the training loop
IDEEpoch ==
    /\ dpc = "loop"
    /\ args[1].driver = "IDE"
    /\ epoch < args[1].epochs
    /\ IF epoch < args[1].start_save
       THEN /\ epoch' = epoch + 1
            /\ UNCHANGED <<dpc, best_top1, saved, model_best, finished,
                           eval_calls>>
       ELSE IF args[1].mygt_icams = 0
            THEN \E o \in EvaluateCallOutcomes(IDEValArgs.pos,
                                               IDEValArgs.kw) :
                   /\ eval_calls' =
                          Append(eval_calls,
                                 CallRecord("examples/IDE.py:233", epoch, o))
                   /\ IF o.raised = ""
                      THEN /\ IDECheckpoint(o.result[1])
                           /\ epoch' = epoch + 1
                           /\ dpc' = dpc
                      ELSE /\ dpc' = "raised"
                           /\ UNCHANGED <<epoch, best_top1, saved,
                                          model_best, finished>>
            ELSE /\ IDECheckpoint(IDETop1)
                 /\ epoch' = epoch + 1
                 /\ UNCHANGED <<dpc, eval_calls>>
    /\ UNCHANGED <<args, start_epoch>>
    /\ UNCHANGED <<evars, pvars>>

\* examples/IDE.py lines 253-259: the loop is exhausted; checkpoint_loader
\* fails without a model_best.pth.tar, and its epoch and best_top1 are
\* dropped
IDEFinalTest ==
    /\ dpc = "loop"
    /\ args[1].driver = "IDE"
    /\ epoch >= args[1].epochs
    /\ IF model_best = None
       THEN /\ dpc' = "raised"
            /\ eval_calls' = eval_calls
       ELSE \E o \in EvaluateCallOutcomes(IDETestArgs.pos, IDETestArgs.kw) :
               /\ eval_calls' =
                      Append(eval_calls,
                             CallRecord("examples/IDE.py:258", epoch, o))
               /\ dpc' = IF o.raised = "" THEN "done" ELSE "raised"
    /\ UNCHANGED <<args, start_epoch, epoch, best_top1, model_best, saved,
                   finished>>
    /\ UNCHANGED <<evars, pvars>>

NextDriver ==
    \/ PCBMain
    \/ PCBEpoch
    \/ PCBFinalTest
    \/ IDEMain
    \/ IDEEpoch
    \/ IDEFinalTest

SpecDriver == InitDriver /\ [][NextDriver]_vars

(* ------------- AI_City.preprocess (reid/datasets/ai_city.py) ----------- *)
\* A file of a directory is [name, pid, cam]: name stands for the file name
\* (names are ordered as the file names sort), pid and cam are the numbers
\* the pattern of the data set type, or the label file, gives for the name
\* raw identities: -1 marks a file without identity; raw camera numbers
\* count from one
RawPids == {-1, 0, 7}
RawCams == {1, 2}
Types == {"tracking_det", "tracking_gt", "reid", "reid_test"}

\* the directories: no two files of a directory share a name
Directories ==
    {d \in SUBSET [name : 1..MaxFiles, pid : RawPids, cam : RawCams] :
        \A e, f \in d : e.name = f.name => e = f}

\* line 64: sorted(glob(osp.join(path, '*.jpg')))
Sorted(d) ==
    [k \in 1..Cardinality(d) |->
        CHOOSE e \in d : Cardinality({f \in d : f.name < e.name}) = k - 1]

\* lines 67-76: the raw <<pid, cam>> of a file under a data set type
RawOf(type, e) ==
    IF type = "tracking_det" THEN <<1, e.cam>>
    ELSE IF type = "tracking_gt" THEN <<e.pid, e.cam>>
    ELSE IF type = "reid" THEN <<e.pid, e.cam>>
    ELSE <<1, 1>>

\* a loop that keeps the files without identity
SkippedNever(pid) == FALSE

\* line 77: if pid == -1: continue
Skipped(pid) == pid = -1

\* a loop that numbers the identities whatever relabel says
NewLabelCounts(relabel, pid, pids) == Len(pids)

\* lines 78-83: the label a new raw identity gets
NewLabel(relabel, pid, pids) == IF relabel THEN Len(pids) ELSE pid

\* a call preprocess(path, relabel, type) is about to be made
InitPreprocess ==
    /\ EvaluatorInit(None)
    /\ DriverIdle
    /\ \E path \in {None} \cup {Some(d) : d \in Directories},
          relabel \in BOOLEAN, type \in Types :
        prep = Some([path |-> path, relabel |-> relabel, type |-> type])
    /\ ppc = "called"
    /\ fpaths = <<>>
    /\ nxt = 1
    /\ all_pids = EmptyDict
    /\ ret = <<>>
    /\ prep_result = None

\* lines 54-64: without a path the empty list and 0 are returned
PreprocessCall ==
    /\ ppc = "called"
    /\ all_pids' = EmptyDict
    /\ ret' = <<>>
    /\ nxt' = 1
    /\ IF prep[1].path = None
       THEN /\ prep_result' = Some(<<<<>>, 0>>)
            /\ ppc' = "returned"
            /\ fpaths' = fpaths
       ELSE /\ fpaths' = Sorted(prep[1].path[1])
            /\ ppc' = "loop"
            /\ prep_result' = prep_result
    /\ UNCHANGED prep
    /\ UNCHANGED <<evars, dvars>>

\* lines 65-86: one iteration of the loop over fpaths
PreprocessFile ==
    /\ ppc = "loop"
    /\ nxt <= Len(fpaths)
    /\ LET fname == fpaths[nxt].name
           raw == RawOf(prep[1].type, fpaths[nxt])
           pid == raw[1]
           cam == raw[2]
           pids == IF HasKey(all_pids, pid) THEN all_pids
                   ELSE DictSet(all_pids, pid,
                                NewLabel(prep[1].relabel, pid, all_pids))
       IN IF Skipped(pid)
          THEN UNCHANGED <<all_pids, ret>>
          ELSE /\ all_pids' = pids
               /\ ret' = Append(ret, <<fname, DictGet(pids, pid), cam - 1>>)
    /\ nxt' = nxt + 1
    /\ UNCHANGED <<prep, ppc, fpaths, prep_result>>
    /\ UNCHANGED <<evars, dvars>>

\* line 87: return ret, int(len(all_pids))
PreprocessReturn ==
    /\ ppc = "loop"
    /\ nxt > Len(fpaths)
    /\ prep_result' = Some(<<ret, Len(all_pids)>>)
    /\ ppc' = "returned"
    /\ UNCHANGED <<prep, fpaths, nxt, all_pids, ret>>
    /\ UNCHANGED <<evars, dvars>>

NextPreprocess == PreprocessCall \/ PreprocessFile \/ PreprocessReturn

SpecPreprocess == InitPreprocess /\ [][NextPreprocess]_vars

Next == NextExtract \/ NextEval \/ NextRank \/ NextDriver \/ NextPreprocess

Spec == (Init \/ InitRank \/ InitDriver \/ InitPreprocess) /\ [][Next]_vars

(* ======================= properties ==================================== *)
\* pairwise_distance has returned normally
HaveDistmat == pc \in {"evaluate_all", "returned"}

(* ---- C1 ---- *)
\* the gallery columns that stay for query row q under the default policy
KeptCols(q) ==
    {j \in 1..Len(gallery) :
        gallery[j][2] # query[q][2] \/ gallery[j][3] # query[q][3]}

MatchCols(q) == {j \in KeptCols(q) : gallery[j][2] = query[q][2]}

\* the kept column nearest to query row q, the leftmost among equals
Nearest(q) ==
    CHOOSE j \in KeptCols(q) :
        \A k \in KeptCols(q) :
            \/ distmat[q][j] < distmat[q][k]
            \/ (distmat[q][j] = distmat[q][k] /\ j <= k)

ScoredRows == {q \in 1..Len(query) : MatchCols(q) # {}}

\* rank-1 CMC of distmat under the default policy, computed directly
Rank1CMC ==
    IF ScoredRows = {} THEN <<0, 1>>
    ELSE <<Cardinality({q \in ScoredRows : Nearest(q) \in MatchCols(q)}),
           Cardinality(ScoredRows)>>

NormSq(v) == Fl(Fl(v[1] * v[1]) + Fl(v[2] * v[2]))
Dot(v, w) == Fl(Fl(v[1] * w[1]) + Fl(v[2] * w[2]))
SqDist(v, w) == Fl(Fl(NormSq(v) + NormSq(w)) - 2 * Dot(v, w))

\* C2: the distance matrix has len(query) rows and len(gallery) columns and
\* entry [r][c] is the squared distance between the embedding stored under
\* the r-th query sample's file identifier and the one stored under the
\* c-th gallery sample's, whatever the key order of the collections
C2_DistmatByFileIdentifier ==
    HaveDistmat =>
        /\ Len(distmat) = Len(query)
        /\ \A r \in 1..Len(query) :
            /\ Len(distmat[r]) = Len(gallery)
            /\ \A c \in 1..Len(gallery) :
                distmat[r][c] = SqDist(DictGet(query_features, query[r][1]),
                                       DictGet(gallery_features, gallery[c][1]))

\* a matrix whose gallery list order is the reverse of the order in which
\* the loader inserted the embeddings, with two different entries
C2_Witness ==
    /\ HaveDistmat
    /\ Len(query) = 1
    /\ Len(gallery) = 2
    /\ DictKeys(gallery_features) = <<gallery[2][1], gallery[1][1]>>
    /\ distmat[1][1] # distmat[1][2]

(* ---- C3 ---- *)
\* pairwise_distance has been called and has returned or raised
AfterPairwise == pc \in {"evaluate_all", "returned", "raised"}

\* a listed sample's file identifier is absent from its collection
MissingIdentifier ==
    \/ \E k \in 1..Len(query) : ~HasKey(query_features, query[k][1])
    \/ \E k \in 1..Len(gallery) : ~HasKey(gallery_features, gallery[k][1])

\* C3: if a listed sample's file identifier is absent from its embedding
\* collection, the call ends in the propagated lookup error, without
\* a distance matrix, a summary line or a score
C3_MissingIdentifierIsLookupError ==
    (AfterPairwise /\ MissingIdentifier) =>
        /\ pc = "raised"
        /\ raised = "KeyError"
        /\ distmat = <<>>
        /\ printed = <<>>
        /\ result = None

(* ---- C6 ---- *)
\* C6: evaluating with an empty query list does not end in an error
C6_EmptyQueryIsDefined ==
    (AfterPairwise /\ query = <<>>) => (pc # "raised" /\ raised = "")

(* ---- C8 ---- *)
\* C8 as stated: every entry of the matrix handed to evaluate_all is
\* non-negative
C8_EntriesNonNegative ==
    HaveDistmat =>
        \A r \in 1..Len(distmat) : \A c \in 1..Len(distmat[r]) :
            distmat[r][c] >= 0

\* the norm expansion of v and w involves no rounding
ExactExpansion(v, w) ==
    /\ \A k \in 1..2 : /\ Fl(v[k] * v[k]) = v[k] * v[k]
                       /\ Fl(w[k] * w[k]) = w[k] * w[k]
                       /\ Fl(v[k] * w[k]) = v[k] * w[k]
    /\ NormSq(v) = v[1] * v[1] + v[2] * v[2]
    /\ NormSq(w) = w[1] * w[1] + w[2] * w[2]
    /\ Dot(v, w) = v[1] * w[1] + v[2] * w[2]
    /\ Fl(NormSq(v) + NormSq(w)) = NormSq(v) + NormSq(w)
    /\ Fl(NormSq(v) + NormSq(w) - 2 * Dot(v, w))
           = NormSq(v) + NormSq(w) - 2 * Dot(v, w)

SumSqDiff(v, w) ==
    (v[1] - w[1]) * (v[1] - w[1]) + (v[2] - w[2]) * (v[2] - w[2])

\* C8 amended: the matrix is handed over unclamped; an entry whose norm
\* expansion involves no rounding is the sum of the squared differences of
\* its two embeddings, hence non-negative
C8_ExactEntriesNonNegative ==
    HaveDistmat =>
        \A r \in 1..Len(query) : \A c \in 1..Len(gallery) :
            LET v == DictGet(query_features, query[r][1])
                w == DictGet(gallery_features, gallery[c][1])
            IN ExactExpansion(v, w) =>
                   /\ distmat[r][c] = SumSqDiff(v, w)
                   /\ distmat[r][c] >= 0

\* a matrix with an entry computed without rounding next to a negative one
C8_Witness ==
    /\ HaveDistmat
    /\ \E r \in 1..Len(query) : \E c, d \in 1..Len(gallery) :
        /\ ExactExpansion(DictGet(query_features, query[r][1]),
                          DictGet(gallery_features, gallery[c][1]))
        /\ distmat[r][d] < 0

(* ---- direct calls: what the call in the state was about ---- *)
Called == call # None /\ pc # "idle"
TheCall == call[1]
WithLists == Called /\ TheCall.query # None /\ TheCall.gallery # None
CallQuery == TheCall.query[1]
CallGallery == TheCall.gallery[1]

\* the gallery entries that are valid true matches of a sample by the lists'
\* own metadata: the sample's identity on another camera
ValidMatches(s, g) == {j \in 1..Len(g) : g[j][2] = s[2] /\ g[j][3] # s[3]}

\* the rows of the call that have a valid match
CallScored == {r \in 1..Len(CallQuery) :
                  ValidMatches(CallQuery[r], CallGallery) # {}}

SameReport(a, b) == \A k \in 1..4 : RatEq(a[k], b[k])

IsZero(x) == x[1] = 0
IsOne(x) == x[1] = x[2]
IsHalf(x) == 2 * x[1] = x[2]
InUnit(x) == 0 <= x[1] /\ x[1] <= x[2] /\ x[2] > 0

(* ---- C4 ---- *)
\* the columns of g that do not share identity and camera with sample s
Kept(s, g) == {j \in 1..Len(g) : g[j][2] # s[2] \/ g[j][3] # s[3]}

\* the k-th smallest element of a set of column numbers
RECURSIVE KthOf(_, _)
KthOf(S, k) == IF k = 1 THEN Min(S) ELSE KthOf(S \ {Min(S)}, k - 1)

\* sequence f restricted to the columns in S, in column order
Restrict(f, S) == [k \in 1..Cardinality(S) |-> f[KthOf(S, k)]]

\* the toy scenario: query (5, cam 0); gallery (5, cam 0), (5, cam 1) at
\* distance 10, (7, cam 1) at distance 5 (distances in hundredths)
C4_Scenario ==
    /\ WithLists
    /\ CallQuery = << <<"f", 5, 0>> >>
    /\ CallGallery = << <<"f", 5, 0>>, <<"f", 5, 1>>, <<"f", 7, 1>> >>
    /\ TheCall.distmat[1][2] = 10
    /\ TheCall.distmat[1][3] = 5

\* C4: under the default policy a gallery entry with the query's identity
\* and camera is removed before ranking: a one-query call reports what the
\* call without these entries reports; the toy scenario gives rank-1 CMC 0,
\* rank-2 CMC 1 and mAP 1/2
C4_SameIdSameCamRemoved ==
    (pc = "returned" /\ WithLists) =>
        /\ Len(CallQuery) = 1 =>
            LET kept == Kept(CallQuery[1], CallGallery)
                r == evaluate_all(<<Restrict(TheCall.distmat[1], kept)>>,
                                  Some(CallQuery),
                                  Some(Restrict(CallGallery, kept)),
                                  None, None, None, None)
            IN /\ SameReport(printed[1], r.printed[1])
               /\ RatEq(result[1], r.result[1])
               /\ (ValidMatches(CallQuery[1], CallGallery) = {}
                      => IsZero(result[1]) /\ IsZero(printed[1][1]))
        /\ C4_Scenario =>
            /\ IsZero(result[1])
            /\ IsZero(printed[1][2])
            /\ IsOne(cmc(TheCall.distmat, IdsOf(CallQuery), IdsOf(CallGallery),
                         CamsOf(CallQuery), CamsOf(CallGallery),
                         market1501)[2])
            /\ IsOne(printed[1][3])
            /\ IsHalf(printed[1][1])

C4_Witness == pc = "returned" /\ C4_Scenario /\ IsHalf(printed[1][1])

(* ---- C5 ---- *)
\* C5: a query without a valid match is skipped: CMC is a mean over exactly
\* the queries with a valid match, and appending a query without a valid
\* match, with any distances, changes neither mAP nor any reported CMC
C5_NoValidMatchSkipped ==
    (pc = "returned" /\ WithLists) =>
        /\ CallScored # {} =>
            /\ printed[1][2][2] = Cardinality(CallScored)
            /\ ~IsZero(printed[1][1])
        /\ CallScored = {} => IsZero(printed[1][1]) /\ IsZero(printed[1][2])
        /\ \A s \in RankSamples :
            ValidMatches(s, CallGallery) = {} =>
                \A row \in [1..Len(CallGallery) -> Dists] :
                    LET r == evaluate_all(Append(TheCall.distmat, row),
                                          Some(Append(CallQuery, s)),
                                          Some(CallGallery),
                                          None, None, None, None)
                    IN /\ SameReport(printed[1], r.printed[1])
                       /\ RatEq(result[1], r.result[1])

\* a call with a scored query and a query whose same-identity gallery
\* entries are on its own camera: mAP and cmc1 are 1, not 1/2
C5_Witness ==
    /\ pc = "returned"
    /\ WithLists
    /\ Len(CallQuery) = 2
    /\ Cardinality(CallScored) = 1
    /\ \E r \in 1..2 :
        /\ r \notin CallScored
        /\ \E j \in 1..Len(CallGallery) :
            CallGallery[j][2] = CallQuery[r][2]
    /\ IsOne(printed[1][1])
    /\ IsOne(printed[1][2])

(* ---- C7 ---- *)
\* the identity and camera metadata the call ranks by
UsedQuery == IF WithLists THEN CallQuery
             ELSE [k \in 1..Len(TheCall.query_ids[1]) |->
                      <<"f", TheCall.query_ids[1][k], TheCall.query_cams[1][k]>>]
UsedGallery == IF WithLists THEN CallGallery
               ELSE [k \in 1..Len(TheCall.gallery_ids[1]) |->
                      <<"f", TheCall.gallery_ids[1][k],
                        TheCall.gallery_cams[1][k]>>]

\* C7: with at least one scored query, mAP and every CMC value lie in
\* [0, 1], CMC does not decrease with the rank, and the printed values
\* satisfy cmc1 <= cmc5 <= cmc10
C7_MetricsBounded ==
    (pc = "returned" /\ Called
        /\ \E r \in 1..Len(UsedQuery) :
               ValidMatches(UsedQuery[r], UsedGallery) # {}) =>
        LET scores == cmc(TheCall.distmat, IdsOf(UsedQuery), IdsOf(UsedGallery),
                          CamsOf(UsedQuery), CamsOf(UsedGallery), market1501)
        IN /\ InUnit(printed[1][1])
           /\ \A k \in 1..CmcTopK : InUnit(scores[k])
           /\ \A k \in 1..(CmcTopK - 1) : RatLeq(scores[k], scores[k + 1])
           /\ printed[1][2] = scores[1]
           /\ \A k \in 2..4 : InUnit(printed[1][k])
           /\ RatLeq(printed[1][2], printed[1][3])
           /\ RatLeq(printed[1][3], printed[1][4])

\* a report with mAP strictly inside (0, 1) and cmc1 < cmc5
C7_Witness ==
    /\ pc = "returned"
    /\ Called
    /\ 0 < printed[1][1][1]
    /\ printed[1][1][1] < printed[1][1][2]
    /\ ~RatLeq(printed[1][3], printed[1][2])

(* ---- C9 ---- *)
MetadataMissing ==
    \/ TheCall.query_ids = None
    \/ TheCall.gallery_ids = None
    \/ TheCall.query_cams = None
    \/ TheCall.gallery_cams = None

\* C9: without both sample lists and with a metadata argument missing the
\* call fails with an assertion error, nothing printed and nothing returned;
\* with both lists the identities and cameras of the lists are used, in list
\* order, whatever metadata arguments are passed
C9_ListsOrAssertion ==
    Called =>
        /\ (~WithLists /\ MetadataMissing) =>
            /\ pc = "raised"
            /\ raised = "AssertionError"
            /\ printed = <<>>
            /\ result = None
        /\ WithLists =>
            LET qi == IdsOf(CallQuery)
                gi == IdsOf(CallGallery)
                qc == CamsOf(CallQuery)
                gc == CamsOf(CallGallery)
                scores == cmc(TheCall.distmat, qi, gi, qc, gc, market1501)
            IN /\ pc = "returned"
               /\ printed = << <<mean_ap(TheCall.distmat, qi, gi, qc, gc),
                                 scores[1], scores[5], scores[10]>> >>
               /\ result = Some(scores[1])

\* a call with the query list, without the gallery list and with one
\* metadata argument missing has raised the assertion error
C9_Witness ==
    /\ pc = "raised"
    /\ Called
    /\ TheCall.query # None
    /\ TheCall.gallery = None
    /\ TheCall.query_ids # None
    /\ TheCall.gallery_ids # None
    /\ TheCall.query_cams # None
    /\ TheCall.gallery_cams = None

(* ---- C10 ---- *)
YieldedNames == {yielded[k][1] : k \in 1..Len(yielded)}

FirstPos(f) == Min({k \in 1..Len(yielded) : yielded[k][1] = f})

LastPos(f) ==
    CHOOSE k \in 1..Len(yielded) :
        /\ yielded[k][1] = f
        /\ \A l \in 1..Len(yielded) : yielded[l][1] = f => l <= k

\* the keys of d are the yielded file identifiers, once each, in the order
\* of their first occurrence
KeysInFirstOccurrenceOrder(d) ==
    /\ {d[k][1] : k \in 1..Len(d)} = YieldedNames
    /\ Len(d) = Cardinality(YieldedNames)
    /\ \A a, b \in 1..Len(d) : a < b => FirstPos(d[a][1]) < FirstPos(d[b][1])

\* C10: after any sequence of batches the feature and label mappings have
\* exactly the yielded file identifiers as keys, in order of first
\* occurrence, each mapped to the output and the label of its last
\* occurrence; these mappings are what extract_features returns
C10_LastOccurrenceWins ==
    pc \in {"extract_loop", "extract_returned"} =>
        /\ KeysInFirstOccurrenceOrder(features)
        /\ KeysInFirstOccurrenceOrder(labels)
        /\ \A f \in YieldedNames :
            /\ DictGet(features, f) = yielded[LastPos(f)][2]
            /\ DictGet(labels, f) = yielded[LastPos(f)][3]
        /\ pc = "extract_returned" => result = Some(<<features, labels>>)

\* a file identifier recurred after another one, with another output and
\* another label
C10_Witness ==
    /\ pc = "extract_returned"
    /\ Len(yielded) >= 3
    /\ yielded[1][1] = yielded[3][1]
    /\ yielded[1][1] # yielded[2][1]
    /\ yielded[1][2] # yielded[3][2]
    /\ yielded[1][3] # yielded[3][3]

(* ---- C14 ---- *)
\* positions of extract_features and Evaluator.evaluate after line 14 ran
AfterModelEval ==
    pc \in {"extract_loop", "extract_returned", "query_loop", "gallery_loop",
            "pairwise_distance", "evaluate_all", "returned", "raised"}

\* C14: the model is switched to inference mode before the first batch is
\* fetched, stays in it while the batches of the query and of the gallery
\* extraction are processed, and is still in it when extract_features and
\* Evaluator.evaluate return or raise: the earlier mode is not restored
C14_InferenceMode == AfterModelEval => training = FALSE

\* evaluate has returned after both loaders yielded a batch, the model
\* being in inference mode
C14_Witness ==
    /\ pc = "returned"
    /\ training = FALSE
    /\ DictKeys(query_features) # <<>>
    /\ DictKeys(gallery_features) # <<>>

(* ---- the drivers: what a run has done so far ---- *)
\* best_top1 before the first epoch: that of the resumed checkpoint, or 0
InitialBest ==
    IF args[1].resume # None THEN args[1].resume[1].best_top1 ELSE 0

\* the first loop index that writes a checkpoint
FirstSaved == Max(start_epoch, args[1].start_save)

\* the largest element of a non-empty set of numbers
MaxOf(S) == CHOOSE v \in S : \A w \in S : w <= v

(* ---- C11 ---- *)
\* C11: whenever a checkpoint is written, the top1 its is_best was decided
\* from is the value a call of Evaluator.evaluate made in that epoch returned
C11_IsBestFromEvaluate ==
    \A k \in 1..Len(saved) :
        \E j \in 1..Len(eval_calls) :
            /\ eval_calls[j].epoch = finished[k][1]
            /\ eval_calls[j].raised = ""
            /\ eval_calls[j].result = Some(finished[k][2])

(* ---- C12 ---- *)
\* the kind of the value a call binds to its k-th parameter
BoundKind(c, k) == c.bound[k][2][1]

\* C12: every call of Evaluator.evaluate a driver makes binds a query
\* loader, a gallery loader, a query sample list and a gallery sample list,
\* so none of them ends in a TypeError of the binding
C12_DriverCallsBind ==
    \A j \in 1..Len(eval_calls) :
        /\ eval_calls[j].raised # "TypeError"
        /\ eval_calls[j].bound # <<>>
        /\ BoundKind(eval_calls[j], 1) = "loader"
        /\ BoundKind(eval_calls[j], 2) = "loader"
        /\ BoundKind(eval_calls[j], 3) = "samples"
        /\ BoundKind(eval_calls[j], 4) = "samples"

(* ---- C15 ---- *)
\* best_top1 before the k-th checkpoint of the run
BestBefore(k) == IF k = 1 THEN InitialBest ELSE saved[k - 1][1].best_top1

\* C15: is_best of a checkpoint is true exactly when the epoch's top1 is at
\* least the best_top1 before it; the checkpoint records the loop index plus
\* one and the updated best_top1, which is the maximum of the initial
\* best_top1 and the top1 of the checkpointed epochs so far and so never
\* decreases; the epochs below start_save write no checkpoint and leave
\* best_top1 as it was, every later epoch writes one
C15_BestTop1 ==
    dpc = "loop" =>
        /\ Len(finished) = Len(saved)
        /\ Len(saved) = Max(0, epoch - FirstSaved)
        /\ best_top1 = BestBefore(Len(saved) + 1)
        /\ \A k \in 1..Len(saved) :
            LET state == saved[k][1]
                is_best == saved[k][2]
                top1 == finished[k][2]
            IN /\ finished[k][1] = FirstSaved + k - 1
               /\ finished[k][1] >= args[1].start_save
               /\ state.epoch = finished[k][1] + 1
               /\ is_best = (top1 >= BestBefore(k))
               /\ state.best_top1 >= BestBefore(k)
               /\ state.best_top1 =
                      MaxOf({InitialBest} \cup
                            {finished[j][2] : j \in 1..k})
               /\ finished[k][3] = state.best_top1

\* an epoch below start_save was skipped, then two checkpoints were
\* written, the first with a top1 equal to the resumed best_top1
C15_Witness ==
    /\ dpc = "loop"
    /\ Len(saved) >= 2
    /\ start_epoch < args[1].start_save
    /\ finished[1][2] = InitialBest
    /\ saved[1][2] = TRUE

(* ---- AI_City.preprocess: the call in the state ---- *)
Preprocessing == ppc \in {"loop", "returned"} /\ prep[1].path # None
TheDirectory == prep[1].path[1]

\* the file of the directory a sample was made from
FileOf(sample) == CHOOSE e \in TheDirectory : e.name = sample[1]

\* the raw identity and the raw camera number of a file in this call
RawPid(e) == RawOf(prep[1].type, e)[1]
RawCam(e) == RawOf(prep[1].type, e)[2]

\* the files the loop has gone through
Visited == {fpaths[k] : k \in 1..(nxt - 1)}

(* ---- C13 ---- *)
\* C13: every sample preprocess produces, for each data set type and both
\* relabel settings, has a non-negative identity label and a non-negative
\* camera identifier, the raw camera number minus one; a file whose raw
\* identity is -1 produces no sample, and every other file produces one
C13_SamplesNonNegative ==
    Preprocessing =>
        /\ \A k \in 1..Len(ret) :
            /\ \E e \in Visited : e.name = ret[k][1]
            /\ ret[k][2] >= 0
            /\ ret[k][3] >= 0
            /\ ret[k][3] = RawCam(FileOf(ret[k])) - 1
            /\ RawPid(FileOf(ret[k])) # -1
        /\ \A e \in Visited :
            RawPid(e) # -1 => \E k \in 1..Len(ret) : ret[k][1] = e.name
        /\ ppc = "returned" => prep_result = Some(<<ret, Len(all_pids)>>)

\* a call without relabel has returned a sample of camera 2 and left out a
\* file without identity
C13_Witness ==
    /\ ppc = "returned"
    /\ prep[1].path # None
    /\ ~prep[1].relabel
    /\ \E e \in TheDirectory : RawPid(e) = -1
    /\ \E k \in 1..Len(ret) : ret[k][3] = 1 /\ ret[k][2] = 7

(* ---- C16 ---- *)
\* position in the sorted listing of the first file with raw identity p
FirstFile(p) ==
    Min({k \in 1..Len(fpaths) : RawPid(fpaths[k]) = p})

\* the raw identities, other than -1, of the directory
RawIdentities == {RawPid(e) : e \in TheDirectory} \ {-1}

\* the labels occurring in the returned sample list
LabelsOf(samples) == {samples[k][2] : k \in 1..Len(samples)}

\* C16: with relabel the label of a raw identity is the number of raw
\* identities that appear before it in the sorted listing, a bijection onto
\* 0..n-1; without relabel the raw identity is kept; the returned count is
\* the number of distinct labels of the returned samples; the samples are
\* in sorted file order, one for each file name
C16_Relabel ==
    (ppc = "returned" /\ prep[1].path # None) =>
        LET samples == prep_result[1][1]
            count == prep_result[1][2]
        IN /\ \A k \in 1..Len(samples) :
                LET p == RawPid(FileOf(samples[k]))
                IN samples[k][2] =
                       IF prep[1].relabel
                       THEN Cardinality({q \in RawIdentities :
                                            FirstFile(q) < FirstFile(p)})
                       ELSE p
           /\ prep[1].relabel =>
                LabelsOf(samples) = 0..(Cardinality(RawIdentities) - 1)
           /\ count = Cardinality(LabelsOf(samples))
           /\ count = Cardinality(RawIdentities)
           /\ \A k \in 1..(Len(samples) - 1) :
                samples[k][1] < samples[k + 1][1]

\* a relabelled listing in which identity 7 comes first, then 0, then 7
\* again: the labels are 0, 1, 0 and the count is 2
C16_Witness ==
    /\ ppc = "returned"
    /\ prep[1].path # None
    /\ prep[1].relabel
    /\ prep[1].type = "tracking_gt"
    /\ prep_result[1][2] = 2
    /\ Len(prep_result[1][1]) = 3
    /\ RawPid(FileOf(prep_result[1][1][1])) = 7
    /\ prep_result[1][1][1][2] = 0
    /\ prep_result[1][1][2][2] = 1
    /\ prep_result[1][1][3][2] = 0

====
